---- MODULE Spec2Model ----
(***************************************************************************)
(* Model of src/streamlit_app.py: the two action-dispatch API clients      *)
(* (MSPAPIClient, UserAPIClient), their shared request primitive           *)
(* _make_request, and the Streamlit session state they live next to.       *)
(*                                                                         *)
(* The boundary of the model is the call requests.post(url, headers=...,   *)
(* json=payload): every such call is recorded with its three arguments,    *)
(* and what the call does (raise, or answer with a status and a body) is   *)
(* an input chosen by the environment.                                     *)
(*                                                                         *)
(* The requests library is modelled as released since 2.27: a body that    *)
(* does not decode makes Response.json() raise                             *)
(* requests.exceptions.JSONDecodeError, a RequestException; a payload      *)
(* that json.dumps cannot encode makes requests.post raise TypeError,      *)
(* which is not a RequestException.                                        *)
(***************************************************************************)
EXTENDS Integers, Sequences, FiniteSets, TLC

----------------------------------------------------------------------------
(* Bounds *)

\* the number of client-method invocations a behaviour contains
MaxCalls == 2

\* identities of the client objects a behaviour can construct
InstIds == {"c1", "c2"}

\* credential strings a client can be constructed with
Keys == {"k1", "k2"}

----------------------------------------------------------------------------
(* Python values: a tag and the items of the value (the characters of a    *)
(* string are abstracted to zero or one token, so "" is the only empty     *)
(* string).                                                                *)

None == [t |-> "None", v |-> <<>>]

Str(s) == [t |-> "str", v |-> <<s>>]

EmptyStr == [t |-> "str", v |-> <<>>]

PyInt(s) == [t |-> "int", v |-> <<s>>]

List(items) == [t |-> "list", v |-> items]

Dict(keys) == [t |-> "dict", v |-> keys]

\* an object json.dumps has no encoding for (bytes, a set, ...)
Obj == [t |-> "object", v |-> <<>>]

\* Python truth value of x, as tested by `not x`, `x or y`, `if x:`
Truthy(x) ==
    CASE x.t = "None" -> FALSE
      [] x.t = "object" -> TRUE
      [] x.t = "int" -> x.v # <<"0">>
      [] OTHER -> x.v # <<>>

\* x or y
Or(x, y) == IF Truthy(x) THEN x ELSE y

\* json.dumps(x) succeeds
Encodable(x) == x.t # "object"

\* no keyword arguments
NoKwargs == [k \in {} |-> None]

----------------------------------------------------------------------------
(* API configuration *)

MSP_API_URL == "https://cthgcqdyqplumqizjngx.supabase.co/functions/v1/msp-api"

USER_API_URL == "https://cthgcqdyqplumqizjngx.supabase.co/functions/v1/user-api"

----------------------------------------------------------------------------
(* What requests.post can do with a call: raise a RequestException whose   *)
(* text is msg (possibly empty), or answer with a status and a body.       *)

Bodies == {"null", "object", "not-json"}

ExcTexts == {<<>>, <<"Connection refused">>}

Response(status, body) == [kind |-> "resp", msg |-> <<>>, status |-> status, body |-> body]

Outcomes ==
    [kind : {"exc"}, msg : ExcTexts, status : {0}, body : {""}]
    \cup {Response(200, b) : b \in Bodies}
    \cup {Response(304, "object"), Response(401, "object")}

\* Response.raise_for_status() raises HTTPError
RaisesForStatus(status) == 400 <= status /\ status < 600

\* str(HTTPError): "<status> Client Error: <reason> for url: <url>"
HTTPErrorText(status) ==
    IF status < 500 THEN Str("Client Error for url") ELSE Str("Server Error for url")

\* the body parses as JSON
IsJSON(body) == body # "not-json"

\* Response.json() of a body that parses
Decode(body) == IF body = "null" THEN None ELSE Dict(<<"enboxes">>)

\* str(requests.exceptions.JSONDecodeError)
JSONDecodeErrorText == Str("Expecting value: line 1 column 1 (char 0)")

----------------------------------------------------------------------------
(* What a client method does: the state it leaves its object in (self),    *)
(* the calls of requests.post it made (posts), and how it ended (ret):     *)
(* `return data, error`, or an exception leaving the method.               *)

Return(data, error) == [kind |-> "return", data |-> data, error |-> error, exc |-> ""]

Raise(exc) == [kind |-> "raise", data |-> None, error |-> None, exc |-> exc]

\* {"action": action, **kwargs}: a key of kwargs replaces the same key before it
Payload(action, kwargs) ==
    LET first == [action |-> Str(action)]
    IN  [k \in DOMAIN first \cup DOMAIN kwargs |->
            IF k \in DOMAIN kwargs THEN kwargs[k] ELSE first[k]]

\* requests.post(url, headers=headers, json=payload) as the caller sees it
Request(url, headers, payload) == [url |-> url, headers |-> headers, json |-> payload]

\* _make_request posting a second time when the first post raised
Attempt_retry(req, net) ==
    IF \E k \in DOMAIN req.json : ~Encodable(req.json[k])
    THEN [posts |-> <<req>>, ret |-> Raise("TypeError")]
    ELSE IF net.kind = "exc"
    THEN [posts |-> <<req, req>>, ret |-> Return(None, [t |-> "str", v |-> net.msg])]
    ELSE IF RaisesForStatus(net.status)
    THEN [posts |-> <<req>>, ret |-> Return(None, HTTPErrorText(net.status))]
    ELSE IF ~IsJSON(net.body)
    THEN [posts |-> <<req>>, ret |-> Return(None, JSONDecodeErrorText)]
    ELSE [posts |-> <<req>>, ret |-> Return(Decode(net.body), None)]

\* the try body of _make_request after the payload is built, and its except clause
Attempt(req, net) ==
    IF \E k \in DOMAIN req.json : ~Encodable(req.json[k])
    THEN [posts |-> <<req>>, ret |-> Raise("TypeError")]
    ELSE IF net.kind = "exc"
    THEN [posts |-> <<req>>, ret |-> Return(None, [t |-> "str", v |-> net.msg])]
    ELSE IF RaisesForStatus(net.status)
    THEN [posts |-> <<req>>, ret |-> Return(None, HTTPErrorText(net.status))]
    ELSE IF ~IsJSON(net.body)
    THEN [posts |-> <<req>>, ret |-> Return(None, JSONDecodeErrorText)]
    ELSE [posts |-> <<req>>, ret |-> Return(Decode(net.body), None)]

----------------------------------------------------------------------------
(* MSPAPIClient *)

\* headers built from one credential shared by all objects
MSPHeaders_shared(api_key) ==
    ("Content-Type" :> "application/json") @@ ("X-MSP-API-Key" :> "k1")

MSPHeaders(api_key) ==
    ("Content-Type" :> "application/json") @@ ("X-MSP-API-Key" :> api_key)

MSPAPIClient(api_key) ==
    [cls |-> "MSPAPIClient", api_key |-> api_key, headers |-> MSPHeaders(api_key)]

MSP_make_request(self, action, kwargs, net) ==
    LET r == Attempt(Request(MSP_API_URL, self.headers, Payload(action, kwargs)), net)
    IN  [self |-> self, posts |-> r.posts, ret |-> r.ret]

get_enboxes(self, net) == MSP_make_request(self, "list-enboxes", NoKwargs, net)


\* create_enbox testing `password is None` in place of `not password`
create_enbox_is_None(self, email, password, display_name, create_via, net) ==
    IF create_via = Str("direct")
    THEN IF password = None
         THEN [self |-> self, posts |-> <<>>,
               ret |-> Return(None, Str("Password is required for direct creation"))]
         ELSE MSP_make_request(self, "create-enbox",
                  [email |-> email, password |-> password, displayName |-> display_name], net)
    ELSE MSP_make_request(self, "create-enbox-invite",
             [email |-> email, displayName |-> display_name], net)

\* create_enbox testing the password before the creation method
create_enbox_password_first(self, email, password, display_name, create_via, net) ==
    IF ~Truthy(password)
    THEN [self |-> self, posts |-> <<>>,
          ret |-> Return(None, Str("Password is required for direct creation"))]
    ELSE IF create_via = Str("direct")
    THEN MSP_make_request(self, "create-enbox",
             [email |-> email, password |-> password, displayName |-> display_name], net)
    ELSE MSP_make_request(self, "create-enbox-invite",
             [email |-> email, displayName |-> display_name], net)

create_enbox(self, email, password, display_name, create_via, net) ==
    IF create_via = Str("direct")
    THEN IF ~Truthy(password)
         THEN [self |-> self, posts |-> <<>>,
               ret |-> Return(None, Str("Password is required for direct creation"))]
         ELSE MSP_make_request(self, "create-enbox",
                  [email |-> email, password |-> password, displayName |-> display_name], net)
    ELSE MSP_make_request(self, "create-enbox-invite",
             [email |-> email, displayName |-> display_name], net)

get_enbox(self, enbox_id, net) ==
    MSP_make_request(self, "get-enbox", [managedEnboxId |-> enbox_id], net)

activate_enbox(self, enbox_id, net) ==
    MSP_make_request(self, "activate-enbox", [managedEnboxId |-> enbox_id], net)

deactivate_enbox(self, enbox_id, net) ==
    MSP_make_request(self, "deactivate-enbox", [managedEnboxId |-> enbox_id], net)

get_stats(self, net) == MSP_make_request(self, "get-stats", NoKwargs, net)


\* get_usage sending the action of get_stats
get_usage_as_stats(self, net) == MSP_make_request(self, "get-stats", NoKwargs, net)

get_usage(self, net) == MSP_make_request(self, "get-usage", NoKwargs, net)

----------------------------------------------------------------------------
(* UserAPIClient *)

UserHeaders(api_key) ==
    ("Content-Type" :> "application/json") @@ ("X-Enbox-API-Key" :> api_key)

UserAPIClient(api_key) ==
    [cls |-> "UserAPIClient", api_key |-> api_key, headers |-> UserHeaders(api_key)]


\* _make_request remembering the action in the headers of its object
User_make_request_keeps_action(self, action, kwargs, net) ==
    LET r == Attempt(Request(USER_API_URL, self.headers, Payload(action, kwargs)), net)
    IN  [self |-> [self EXCEPT !.headers = ("X-Action" :> action) @@ self.headers],
         posts |-> r.posts, ret |-> r.ret]

User_make_request(self, action, kwargs, net) ==
    LET r == Attempt(Request(USER_API_URL, self.headers, Payload(action, kwargs)), net)
    IN  [self |-> self, posts |-> r.posts, ret |-> r.ret]

get_profile(self, net) == User_make_request(self, "get-profile", NoKwargs, net)

list_emails(self, folder, limit, offset, net) ==
    User_make_request(self, "list-emails",
        [folder |-> folder, limit |-> limit, offset |-> offset], net)

get_email(self, email_id, net) ==
    User_make_request(self, "get-email", [emailId |-> email_id], net)


\* send_email passing cc and bcc on as given
send_email_as_given(self, to, subject, body_text, body_html, cc, bcc, priority, net) ==
    User_make_request(self, "send-email",
        [to |-> to, cc |-> cc, bcc |-> bcc,
         subject |-> subject, bodyText |-> body_text, bodyHtml |-> body_html,
         priority |-> priority], net)

send_email(self, to, subject, body_text, body_html, cc, bcc, priority, net) ==
    User_make_request(self, "send-email",
        [to |-> to, cc |-> Or(cc, List(<<>>)), bcc |-> Or(bcc, List(<<>>)),
         subject |-> subject, bodyText |-> body_text, bodyHtml |-> body_html,
         priority |-> priority], net)

mark_read(self, email_id, net) ==
    User_make_request(self, "mark-read", [emailId |-> email_id], net)

mark_unread(self, email_id, net) ==
    User_make_request(self, "mark-unread", [emailId |-> email_id], net)

star(self, email_id, net) ==
    User_make_request(self, "star", [emailId |-> email_id], net)

unstar(self, email_id, net) ==
    User_make_request(self, "unstar", [emailId |-> email_id], net)

archive(self, email_id, net) ==
    User_make_request(self, "archive", [emailId |-> email_id], net)

trash(self, email_id, net) ==
    User_make_request(self, "trash", [emailId |-> email_id], net)

restore(self, email_id, net) ==
    User_make_request(self, "restore", [emailId |-> email_id], net)

delete_draft(self, email_id, net) ==
    User_make_request(self, "delete-draft", [emailId |-> email_id], net)

list_labels(self, net) == User_make_request(self, "list-labels", NoKwargs, net)

resolve_enbox(self, enbox_id, net) ==
    User_make_request(self, "resolve-enbox", [enboxId |-> enbox_id], net)

----------------------------------------------------------------------------
(* State *)

VARIABLES
    clients,        \* the client objects constructed so far, by identity
    session_state,  \* st.session_state
    last,           \* the latest client-method invocation: who, what, outcome
    invocations,    \* client-method invocations so far
    request_count,  \* calls of requests.post so far
    secrets,        \* st.secrets
    pc,             \* where the script is in its current run of main()
    run,            \* the current (or latest) run of main(): what it did
    screen          \* the buttons the latest finished sidebar shows

vars == <<clients, session_state, last, invocations, request_count,
          secrets, pc, run, screen>>

\* an identity no object has been constructed for
NoClient == [cls |-> "none", api_key |-> "", headers |-> NoKwargs]

NoOutcome == [kind |-> "none", msg |-> <<>>, status |-> 0, body |-> ""]

NoCall ==
    [inst |-> "none", method |-> "none", args |-> NoKwargs, net |-> NoOutcome,
     posts |-> <<>>, ret |-> [kind |-> "none", data |-> None, error |-> None, exc |-> ""]]

\* init_session_state()
init_session_state ==
    [msp_authenticated |-> FALSE, user_authenticated |-> FALSE,
     msp_api_key |-> None, user_api_key |-> None,
     enboxes_data |-> None, current_mode |-> Str("MSP")]

\* a run of main() that has not done anything yet
NewRun(trigger, event) ==
    [trigger |-> trigger, event |-> event,
     msp_client |-> NoClient, user_client |-> NoClient,
     pages |-> <<>>, page |-> "none", renderer |-> "none", client |-> NoClient,
     call |-> NoCall, posts |-> <<>>]

\* no buttons on the screen
NoScreen == [disconnect_msp |-> FALSE, disconnect_user |-> FALSE]

\* no .streamlit/secrets.toml entries
NoSecrets == [msp_api_key |-> None, user_api_key |-> None]

Init ==
    /\ clients = [i \in InstIds |-> NoClient]
    /\ session_state = init_session_state
    /\ last = NoCall
    /\ invocations = 0
    /\ request_count = 0
    /\ secrets = NoSecrets
    /\ pc = "idle"
    /\ run = NewRun("none", "none")
    /\ screen = NoScreen

----------------------------------------------------------------------------
(* Argument values the callers are drawn from *)

EnboxIds == {Str("enbox-1"), Obj}

EmailIds == {Str("email-1")}

Emails == {Str("a@example.com")}

Passwords == {None, EmptyStr, Str("secret")}

DisplayNames == {None, Str("Customer")}

CreateVias == {Str("direct"), Str("invite")}

Folders == {Str("inbox")}

Recipients == {List(<<"a", "b">>)}

CopyLists == {None, List(<<>>), List(<<"c">>)}

----------------------------------------------------------------------------
(* Actions *)

\* MSPAPIClient(api_key): a new object
NewMSPAPIClient(i, api_key) ==
    /\ clients[i] = NoClient
    /\ clients' = [clients EXCEPT ![i] = MSPAPIClient(api_key)]
    /\ UNCHANGED <<session_state, last, invocations, request_count, secrets, pc, run, screen>>

\* UserAPIClient(api_key): a new object
NewUserAPIClient(i, api_key) ==
    /\ clients[i] = NoClient
    /\ clients' = [clients EXCEPT ![i] = UserAPIClient(api_key)]
    /\ UNCHANGED <<session_state, last, invocations, request_count, secrets, pc, run, screen>>

\* one invocation of a method on object i, with result res
Invoke(i, method, args, net, res) ==
    /\ invocations < MaxCalls
    /\ clients' = [clients EXCEPT ![i] = res.self]
    /\ last' = [inst |-> i, method |-> method, args |-> args, net |-> net,
                posts |-> res.posts, ret |-> res.ret]
    /\ invocations' = invocations + 1
    /\ request_count' = request_count + Len(res.posts)
    /\ UNCHANGED <<session_state, secrets, pc, run, screen>>

IsMSP(i) == clients[i].cls = "MSPAPIClient"

IsUser(i) == clients[i].cls = "UserAPIClient"

Call_get_enboxes(i, net) ==
    /\ IsMSP(i)
    /\ Invoke(i, "get_enboxes", NoKwargs, net, get_enboxes(clients[i], net))

Call_create_enbox(i, email, password, display_name, create_via, net) ==
    /\ IsMSP(i)
    /\ Invoke(i, "create_enbox",
              [email |-> email, password |-> password, display_name |-> display_name,
               create_via |-> create_via], net,
              create_enbox(clients[i], email, password, display_name, create_via, net))

Call_get_enbox(i, enbox_id, net) ==
    /\ IsMSP(i)
    /\ Invoke(i, "get_enbox", [enbox_id |-> enbox_id], net,
              get_enbox(clients[i], enbox_id, net))

Call_activate_enbox(i, enbox_id, net) ==
    /\ IsMSP(i)
    /\ Invoke(i, "activate_enbox", [enbox_id |-> enbox_id], net,
              activate_enbox(clients[i], enbox_id, net))

Call_deactivate_enbox(i, enbox_id, net) ==
    /\ IsMSP(i)
    /\ Invoke(i, "deactivate_enbox", [enbox_id |-> enbox_id], net,
              deactivate_enbox(clients[i], enbox_id, net))

Call_get_stats(i, net) ==
    /\ IsMSP(i)
    /\ Invoke(i, "get_stats", NoKwargs, net, get_stats(clients[i], net))

Call_get_usage(i, net) ==
    /\ IsMSP(i)
    /\ Invoke(i, "get_usage", NoKwargs, net, get_usage(clients[i], net))

Call_get_profile(i, net) ==
    /\ IsUser(i)
    /\ Invoke(i, "get_profile", NoKwargs, net, get_profile(clients[i], net))

Call_list_emails(i, folder, net) ==
    /\ IsUser(i)
    /\ Invoke(i, "list_emails",
              [folder |-> folder, limit |-> PyInt("50"), offset |-> PyInt("0")], net,
              list_emails(clients[i], folder, PyInt("50"), PyInt("0"), net))

Call_get_email(i, email_id, net) ==
    /\ IsUser(i)
    /\ Invoke(i, "get_email", [email_id |-> email_id], net,
              get_email(clients[i], email_id, net))

Call_send_email(i, to, cc, bcc, net) ==
    /\ IsUser(i)
    /\ Invoke(i, "send_email",
              [to |-> to, subject |-> Str("Hello"), body_text |-> Str("text"),
               body_html |-> EmptyStr, cc |-> cc, bcc |-> bcc,
               priority |-> Str("normal")], net,
              send_email(clients[i], to, Str("Hello"), Str("text"), EmptyStr,
                         cc, bcc, Str("normal"), net))

Call_mark_read(i, email_id, net) ==
    /\ IsUser(i)
    /\ Invoke(i, "mark_read", [email_id |-> email_id], net,
              mark_read(clients[i], email_id, net))

Call_mark_unread(i, email_id, net) ==
    /\ IsUser(i)
    /\ Invoke(i, "mark_unread", [email_id |-> email_id], net,
              mark_unread(clients[i], email_id, net))

Call_star(i, email_id, net) ==
    /\ IsUser(i)
    /\ Invoke(i, "star", [email_id |-> email_id], net,
              star(clients[i], email_id, net))

Call_unstar(i, email_id, net) ==
    /\ IsUser(i)
    /\ Invoke(i, "unstar", [email_id |-> email_id], net,
              unstar(clients[i], email_id, net))

Call_archive(i, email_id, net) ==
    /\ IsUser(i)
    /\ Invoke(i, "archive", [email_id |-> email_id], net,
              archive(clients[i], email_id, net))

Call_trash(i, email_id, net) ==
    /\ IsUser(i)
    /\ Invoke(i, "trash", [email_id |-> email_id], net,
              trash(clients[i], email_id, net))

Call_restore(i, email_id, net) ==
    /\ IsUser(i)
    /\ Invoke(i, "restore", [email_id |-> email_id], net,
              restore(clients[i], email_id, net))

Call_delete_draft(i, email_id, net) ==
    /\ IsUser(i)
    /\ Invoke(i, "delete_draft", [email_id |-> email_id], net,
              delete_draft(clients[i], email_id, net))

Call_list_labels(i, net) ==
    /\ IsUser(i)
    /\ Invoke(i, "list_labels", NoKwargs, net, list_labels(clients[i], net))

Call_resolve_enbox(i, enbox_id, net) ==
    /\ IsUser(i)
    /\ Invoke(i, "resolve_enbox", [enbox_id |-> enbox_id], net,
              resolve_enbox(clients[i], enbox_id, net))

Next ==
    \/ \E i \in InstIds, k \in Keys : NewMSPAPIClient(i, k)
    \/ \E i \in InstIds, k \in Keys : NewUserAPIClient(i, k)
    \/ \E i \in InstIds, net \in Outcomes : Call_get_enboxes(i, net)
    \/ \E i \in InstIds, e \in Emails, p \in Passwords, d \in DisplayNames,
          v \in CreateVias, net \in Outcomes : Call_create_enbox(i, e, p, d, v, net)
    \/ \E i \in InstIds, x \in EnboxIds, net \in Outcomes : Call_get_enbox(i, x, net)
    \/ \E i \in InstIds, x \in EnboxIds, net \in Outcomes : Call_activate_enbox(i, x, net)
    \/ \E i \in InstIds, x \in EnboxIds, net \in Outcomes : Call_deactivate_enbox(i, x, net)
    \/ \E i \in InstIds, net \in Outcomes : Call_get_stats(i, net)
    \/ \E i \in InstIds, net \in Outcomes : Call_get_usage(i, net)
    \/ \E i \in InstIds, net \in Outcomes : Call_get_profile(i, net)
    \/ \E i \in InstIds, f \in Folders, net \in Outcomes : Call_list_emails(i, f, net)
    \/ \E i \in InstIds, x \in EmailIds, net \in Outcomes : Call_get_email(i, x, net)
    \/ \E i \in InstIds, to \in Recipients, cc \in CopyLists, bcc \in CopyLists,
          net \in Outcomes : Call_send_email(i, to, cc, bcc, net)
    \/ \E i \in InstIds, x \in EmailIds, net \in Outcomes : Call_mark_read(i, x, net)
    \/ \E i \in InstIds, x \in EmailIds, net \in Outcomes : Call_mark_unread(i, x, net)
    \/ \E i \in InstIds, x \in EmailIds, net \in Outcomes : Call_star(i, x, net)
    \/ \E i \in InstIds, x \in EmailIds, net \in Outcomes : Call_unstar(i, x, net)
    \/ \E i \in InstIds, x \in EmailIds, net \in Outcomes : Call_archive(i, x, net)
    \/ \E i \in InstIds, x \in EmailIds, net \in Outcomes : Call_trash(i, x, net)
    \/ \E i \in InstIds, x \in EmailIds, net \in Outcomes : Call_restore(i, x, net)
    \/ \E i \in InstIds, x \in EmailIds, net \in Outcomes : Call_delete_draft(i, x, net)
    \/ \E i \in InstIds, net \in Outcomes : Call_list_labels(i, net)
    \/ \E i \in InstIds, x \in EnboxIds, net \in Outcomes : Call_resolve_enbox(i, x, net)

Spec == Init /\ [][Next]_vars

----------------------------------------------------------------------------
(* The application: main() and the functions it calls.  A run of main() is *)
(* sequential; pc says which part of it comes next:                       *)
(*   idle -> auth_msp -> auth_user -> sidebar -> route -> idle            *)
(* and st.rerun() ends the run at once and starts another (pc = "rerun"). *)

\* what requests.post does with the calls the application makes
AppOutcomes ==
    [kind : {"exc"}, msg : ExcTexts, status : {0}, body : {""}]
    \cup {Response(200, "object"), Response(200, "null"), Response(401, "object")}

\* the ways .streamlit/secrets.toml can be filled in
SecretsConfigs ==
    [msp_api_key : {None, Str("k1")}, user_api_key : {None, Str("k2")}]

\* the text of form fields
FormEmails == {EmptyStr, Str("a@example.com")}

FormPasswords == {Str("abc"), Str("secret")}

FormRecipients == {EmptyStr, Str("a, b")}

FormCopies == {EmptyStr, Str("c")}

FormEnboxIds == {EmptyStr, Str("enbox-1")}

\* the buttons next to one email of the inbox
EmailButtons ==
    {"none", "view", "mark_unread", "mark_read", "unstar", "star", "archive", "trash"}

\* the pages of the navigation
MSPPages == <<"MSP: Dashboard", "MSP: Create Enbox", "MSP: Statistics">>

UserPages ==
    <<"User: Inbox", "User: Send Email", "User: Profile", "User: Resolve Enbox",
      "User: Labels">>

\* the string in a str value, as a credential for a header
KeyOf(x) == IF x.t = "str" /\ x.v # <<>> THEN x.v[1] ELSE ""

\* "@" in email
HasAt(email) == email.t = "str" /\ email.v # <<>> /\ email.v[1] = "a@example.com"

\* len(password)
StrLen(x) ==
    IF x.v = <<>> THEN 0
    ELSE CASE x.v[1] = "abc" -> 3
           [] x.v[1] = "secret" -> 6
           [] OTHER -> 8

\* the password length the form asks for
MinPasswordLen == 6

\* [t.strip() for t in text.split(",")]
SplitComma(text) ==
    IF text.v = <<>> THEN List(<<"">>)
    ELSE IF text.v[1] = "a, b" THEN List(<<"a", "b">>) ELSE List(text.v)

\* a client-method call made by the application, in the shape of `last`
CallOf(who, method, args, net, res) ==
    [inst |-> who, method |-> method, args |-> args, net |-> net,
     posts |-> res.posts, ret |-> res.ret]

\* what a function of the application did: the session state it leaves, its
\* latest client call, the requests it posted, whether it ended in st.rerun()
Done(ss, call, posts, rerun) == [ss |-> ss, call |-> call, posts |-> posts, rerun |-> rerun]

\* authenticate_msp(): ok is its return value
authenticate_msp(ss, net) ==
    LET api_key == secrets.msp_api_key
        res == get_enboxes(MSPAPIClient(KeyOf(api_key)), net)
        call == CallOf("msp_client", "get_enboxes", NoKwargs, net, res)
    IN  IF ~Truthy(api_key)
        THEN [ok |-> FALSE, ss |-> ss, call |-> NoCall]
        ELSE IF res.ret.kind = "raise" \/ Truthy(res.ret.error)
        THEN [ok |-> FALSE, ss |-> ss, call |-> call]
        ELSE [ok |-> TRUE, ss |-> [ss EXCEPT !.msp_api_key = api_key], call |-> call]

\* authenticate_user(): ok is its return value
authenticate_user(ss, net) ==
    LET api_key == secrets.user_api_key
        res == get_profile(UserAPIClient(KeyOf(api_key)), net)
        call == CallOf("user_client", "get_profile", NoKwargs, net, res)
    IN  IF ~Truthy(api_key)
        THEN [ok |-> FALSE, ss |-> ss, call |-> NoCall]
        ELSE IF res.ret.kind = "raise" \/ Truthy(res.ret.error)
        THEN [ok |-> FALSE, ss |-> ss, call |-> call]
        ELSE [ok |-> TRUE, ss |-> [ss EXCEPT !.user_api_key = api_key], call |-> call]

\* a Disconnect MSP that drops the User key with the MSP one
disconnect_msp_all(ss) ==
    [ss EXCEPT !.msp_authenticated = FALSE, !.msp_api_key = None, !.user_api_key = None]

\* the Disconnect MSP button, clicked
disconnect_msp(ss) == [ss EXCEPT !.msp_authenticated = FALSE, !.msp_api_key = None]

\* the Disconnect User button, clicked
disconnect_user(ss) == [ss EXCEPT !.user_authenticated = FALSE, !.user_api_key = None]

\* a page list that offers the MSP pages whatever the MSP client is
Pages_always_msp(msp_client, user_client) ==
    MSPPages \o (IF user_client # NoClient THEN UserPages ELSE <<>>)

\* the page list the sidebar builds from the two clients
Pages(msp_client, user_client) ==
    (IF msp_client # NoClient THEN MSPPages ELSE <<>>)
    \o (IF user_client # NoClient THEN UserPages ELSE <<>>)

\* display_enboxes_list(client): refresh is the Refresh button
display_enboxes_list(client, ss, refresh, net) ==
    LET s1 == IF refresh THEN [ss EXCEPT !.enboxes_data = None] ELSE ss
        res == get_enboxes(client, net)
        call == CallOf("msp_client", "get_enboxes", NoKwargs, net, res)
    IN  IF s1.enboxes_data # None
        THEN Done(s1, NoCall, <<>>, FALSE)
        ELSE IF res.ret.kind = "raise" \/ Truthy(res.ret.error)
        THEN Done(s1, call, res.posts, FALSE)
        ELSE Done([s1 EXCEPT !.enboxes_data = res.ret.data], call, res.posts, FALSE)

\* create_enbox_form(client): the form's inputs, and whether it was submitted
create_enbox_form(client, ss, create_method, submitted, email, pw, display_name, net) ==
    LET password == IF create_method = Str("direct") THEN pw ELSE None
        args == [email |-> email, password |-> password,
                 display_name |-> display_name, create_via |-> create_method]
        res == create_enbox(client, email, password, display_name, create_method, net)
        call == CallOf("msp_client", "create_enbox", args, net, res)
    IN  IF ~submitted
        THEN Done(ss, NoCall, <<>>, FALSE)
        ELSE IF ~Truthy(email) \/ ~HasAt(email)
        THEN Done(ss, NoCall, <<>>, FALSE)
        ELSE IF /\ create_method = Str("direct")
                /\ (~Truthy(password) \/ StrLen(password) < MinPasswordLen)
        THEN Done(ss, NoCall, <<>>, FALSE)
        ELSE IF res.ret.kind = "raise" \/ Truthy(res.ret.error)
        THEN Done(ss, call, res.posts, FALSE)
        ELSE IF create_method = Str("invite") /\ res.ret.data.t # "dict"
        THEN Done(ss, call, res.posts, FALSE)  \* result.get raises AttributeError
        ELSE Done([ss EXCEPT !.enboxes_data = None], call, res.posts, FALSE)

\* display_msp_statistics(client)
display_msp_statistics(client, ss, net1, net2) ==
    LET stats == get_stats(client, net1)
        usage == get_usage(client, net2)
    IN  Done(ss, CallOf("msp_client", "get_usage", NoKwargs, net2, usage),
             stats.posts \o usage.posts, FALSE)

\* the client method behind a button of an email
EmailCall(client, button, email_id, net) ==
    CASE button = "view" -> get_email(client, email_id, net)
      [] button = "mark_unread" -> mark_unread(client, email_id, net)
      [] button = "mark_read" -> mark_read(client, email_id, net)
      [] button = "unstar" -> unstar(client, email_id, net)
      [] button = "star" -> star(client, email_id, net)
      [] button = "archive" -> archive(client, email_id, net)
      [] button = "trash" -> trash(client, email_id, net)

\* display_inbox(client), with view_email_detail and email_actions: button is
\* the button clicked next to an email of the list, if any
display_inbox(client, ss, folder, net, button, net2) ==
    LET res == list_emails(client, folder, PyInt("50"), PyInt("0"), net)
        call == CallOf("user_client", "list_emails",
                       [folder |-> folder, limit |-> PyInt("50"), offset |-> PyInt("0")],
                       net, res)
        second == EmailCall(client, button, Str("email-1"), net2)
    IN  IF res.ret.kind = "raise" \/ Truthy(res.ret.error) \/ res.ret.data.t # "dict"
           \/ button = "none"
        THEN Done(ss, call, res.posts, FALSE)
        ELSE Done(ss, CallOf("user_client", button, [email_id |-> Str("email-1")],
                             net2, second),
                  res.posts \o second.posts, button # "view")

\* send_email_form(client)
send_email_form(client, ss, submitted, to, cc, bcc, net) ==
    LET to_list == SplitComma(to)
        cc_list == IF Truthy(cc) THEN SplitComma(cc) ELSE List(<<>>)
        bcc_list == IF Truthy(bcc) THEN SplitComma(bcc) ELSE List(<<>>)
        res == send_email(client, to_list, Str("Hello"), Str("text"), EmptyStr,
                          cc_list, bcc_list, Str("normal"), net)
        args == [to |-> to_list, subject |-> Str("Hello"), body_text |-> Str("text"),
                 body_html |-> EmptyStr, cc |-> cc_list, bcc |-> bcc_list,
                 priority |-> Str("normal")]
    IN  IF ~submitted \/ ~Truthy(to)
        THEN Done(ss, NoCall, <<>>, FALSE)
        ELSE Done(ss, CallOf("user_client", "send_email", args, net, res),
                  res.posts, FALSE)

\* user_profile_page(client)
user_profile_page(client, ss, net) ==
    LET res == get_profile(client, net)
    IN  Done(ss, CallOf("user_client", "get_profile", NoKwargs, net, res),
             res.posts, FALSE)

\* display_labels(client)
display_labels(client, ss, net) ==
    LET res == list_labels(client, net)
    IN  Done(ss, CallOf("user_client", "list_labels", NoKwargs, net, res),
             res.posts, FALSE)

\* resolve_enbox_tool(client)
resolve_enbox_tool(client, ss, clicked, enbox_id, net) ==
    LET res == resolve_enbox(client, enbox_id, net)
    IN  IF ~clicked \/ ~Truthy(enbox_id)
        THEN Done(ss, NoCall, <<>>, FALSE)
        ELSE Done(ss, CallOf("user_client", "resolve_enbox", [enbox_id |-> enbox_id],
                             net, res),
                  res.posts, FALSE)

----------------------------------------------------------------------------
(* Actions of the application *)

AppFrame == UNCHANGED <<clients, last, invocations, request_count, secrets>>

\* the browser starts a run of main(): the first load, or a widget was used;
\* event is the sidebar button clicked, if any
StartRun(event) ==
    /\ pc = "idle"
    /\ event = "disconnect_msp" => screen.disconnect_msp
    /\ event = "disconnect_user" => screen.disconnect_user
    /\ run' = NewRun("browser", event)
    /\ pc' = "auth_msp"
    /\ UNCHANGED <<session_state, screen>>
    /\ AppFrame

\* st.rerun() has ended a run: main() runs again, no widget was used
Rerun ==
    /\ pc = "rerun"
    /\ run' = NewRun(IF run.renderer = "none" THEN run.event ELSE "email", "none")
    /\ pc' = "auth_msp"
    /\ UNCHANGED <<session_state, screen>>
    /\ AppFrame

\* main: "Try to authenticate MSP", and the MSP client
AuthMSP(net) ==
    /\ pc = "auth_msp"
    /\ LET a == authenticate_msp(session_state, net)
           tried == ~session_state.msp_authenticated
           s1 == IF tried /\ a.ok
                 THEN [a.ss EXCEPT !.msp_authenticated = TRUE]
                 ELSE IF tried THEN a.ss ELSE session_state
           call == IF tried THEN a.call ELSE NoCall
       IN  /\ session_state' = s1
           /\ run' = [run EXCEPT
                        !.msp_client = IF s1.msp_authenticated
                                       THEN MSPAPIClient(KeyOf(s1.msp_api_key))
                                       ELSE NoClient,
                        !.call = call,
                        !.posts = run.posts \o call.posts]
    /\ pc' = "auth_user"
    /\ UNCHANGED screen
    /\ AppFrame

\* main: "Try to authenticate User", and the User client
AuthUser(net) ==
    /\ pc = "auth_user"
    /\ LET a == authenticate_user(session_state, net)
           tried == ~session_state.user_authenticated
           s1 == IF tried /\ a.ok
                 THEN [a.ss EXCEPT !.user_authenticated = TRUE]
                 ELSE IF tried THEN a.ss ELSE session_state
           call == IF tried THEN a.call ELSE NoCall
       IN  /\ session_state' = s1
           /\ run' = [run EXCEPT
                        !.user_client = IF s1.user_authenticated
                                        THEN UserAPIClient(KeyOf(s1.user_api_key))
                                        ELSE NoClient,
                        !.call = call,
                        !.posts = run.posts \o call.posts]
    /\ pc' = "sidebar"
    /\ UNCHANGED screen
    /\ AppFrame

\* main: the sidebar, where Disconnect MSP was clicked
SidebarDisconnectMSP ==
    /\ pc = "sidebar"
    /\ session_state.msp_authenticated
    /\ run.event = "disconnect_msp"
    /\ session_state' = disconnect_msp(session_state)
    /\ run' = [run EXCEPT !.call = NoCall]
    /\ pc' = "rerun"
    /\ UNCHANGED screen
    /\ AppFrame

\* main: the sidebar, where Disconnect User was clicked
SidebarDisconnectUser ==
    /\ pc = "sidebar"
    /\ ~(session_state.msp_authenticated /\ run.event = "disconnect_msp")
    /\ session_state.user_authenticated
    /\ run.event = "disconnect_user"
    /\ session_state' = disconnect_user(session_state)
    /\ run' = [run EXCEPT !.call = NoCall]
    /\ pc' = "rerun"
    /\ UNCHANGED screen
    /\ AppFrame

\* main: the sidebar with no button clicked: the page list, and the page the
\* radio returns; with no page to offer, main returns
Sidebar(choice) ==
    /\ pc = "sidebar"
    /\ ~(session_state.msp_authenticated /\ run.event = "disconnect_msp")
    /\ ~(session_state.user_authenticated /\ run.event = "disconnect_user")
    /\ LET pages == Pages(run.msp_client, run.user_client)
       IN  IF pages = <<>>
           THEN /\ choice = 1
                /\ run' = [run EXCEPT !.call = NoCall]
                /\ pc' = "idle"
           ELSE /\ choice \in 1..Len(pages)
                /\ run' = [run EXCEPT !.pages = pages, !.page = pages[choice],
                                      !.call = NoCall]
                /\ pc' = "route"
    /\ screen' = [disconnect_msp |-> session_state.msp_authenticated,
                  disconnect_user |-> session_state.user_authenticated]
    /\ UNCHANGED session_state
    /\ AppFrame

\* main: "Route to appropriate page": renderer name was called with client
Render(page, name, client, res) ==
    /\ pc = "route"
    /\ run.page = page
    /\ session_state' = res.ss
    /\ run' = [run EXCEPT !.renderer = name, !.client = client, !.call = res.call,
                          !.posts = run.posts \o res.posts]
    /\ pc' = IF res.rerun THEN "rerun" ELSE "idle"
    /\ UNCHANGED screen
    /\ AppFrame

PageDashboard(refresh, net) ==
    Render("MSP: Dashboard", "display_enboxes_list", run.msp_client,
           display_enboxes_list(run.msp_client, session_state, refresh, net))

PageCreateEnbox(create_method, submitted, email, password_text, display_name, net) ==
    Render("MSP: Create Enbox", "create_enbox_form", run.msp_client,
           create_enbox_form(run.msp_client, session_state, create_method, submitted,
                             email, password_text, display_name, net))

PageStatistics(net1, net2) ==
    Render("MSP: Statistics", "display_msp_statistics", run.msp_client,
           display_msp_statistics(run.msp_client, session_state, net1, net2))

PageInbox(folder, net, button, net2) ==
    Render("User: Inbox", "display_inbox", run.user_client,
           display_inbox(run.user_client, session_state, folder, net, button, net2))

PageSendEmail(submitted, to, cc, bcc, net) ==
    Render("User: Send Email", "send_email_form", run.user_client,
           send_email_form(run.user_client, session_state, submitted, to, cc, bcc, net))

PageProfile(net) ==
    Render("User: Profile", "user_profile_page", run.user_client,
           user_profile_page(run.user_client, session_state, net))

PageResolveEnbox(clicked, enbox_id, net) ==
    Render("User: Resolve Enbox", "resolve_enbox_tool", run.user_client,
           resolve_enbox_tool(run.user_client, session_state, clicked, enbox_id, net))

PageLabels(net) ==
    Render("User: Labels", "display_labels", run.user_client,
           display_labels(run.user_client, session_state, net))

InitApp ==
    /\ clients = [i \in InstIds |-> NoClient]
    /\ session_state = init_session_state
    /\ last = NoCall
    /\ invocations = 0
    /\ request_count = 0
    /\ secrets \in SecretsConfigs
    /\ pc = "idle"
    /\ run = NewRun("none", "none")
    /\ screen = NoScreen

NextApp ==
    \/ \E event \in {"none", "disconnect_msp", "disconnect_user"} : StartRun(event)
    \/ Rerun
    \/ \E net \in AppOutcomes : AuthMSP(net)
    \/ \E net \in AppOutcomes : AuthUser(net)
    \/ SidebarDisconnectMSP
    \/ SidebarDisconnectUser
    \/ \E choice \in 1..(Len(MSPPages) + Len(UserPages)) : Sidebar(choice)
    \/ \E refresh \in BOOLEAN, net \in AppOutcomes : PageDashboard(refresh, net)
    \/ \E m \in CreateVias, submitted \in BOOLEAN, e \in FormEmails,
          p \in FormPasswords, d \in {EmptyStr}, net \in AppOutcomes :
          PageCreateEnbox(m, submitted, e, p, d, net)
    \/ \E net1 \in AppOutcomes, net2 \in AppOutcomes : PageStatistics(net1, net2)
    \/ \E f \in Folders, net \in AppOutcomes, b \in EmailButtons, net2 \in AppOutcomes :
          PageInbox(f, net, b, net2)
    \/ \E submitted \in BOOLEAN, to \in FormRecipients, cc \in FormCopies,
          bcc \in FormCopies, net \in AppOutcomes :
          PageSendEmail(submitted, to, cc, bcc, net)
    \/ \E net \in AppOutcomes : PageProfile(net)
    \/ \E clicked \in BOOLEAN, x \in FormEnboxIds, net \in AppOutcomes :
          PageResolveEnbox(clicked, x, net)
    \/ \E net \in AppOutcomes : PageLabels(net)

SpecApp == InitApp /\ [][NextApp]_vars

----------------------------------------------------------------------------
(* Vocabulary of the claims *)

\* a client method has been invoked, and it is the latest invocation
Called(method) == last.method = method

\* the latest invocation ended with `return data, error`
Returned == last.ret.kind = "return"

\* this step is one client-method invocation
InvocationStep == invocations' = invocations + 1

\* the remote call of the latest invocation was made and failed: transport
\* failure, a status outside 2xx, or a body that is not JSON
RemoteCallFailed ==
    /\ last.posts # <<>>
    /\ \A k \in DOMAIN last.posts[1].json : Encodable(last.posts[1].json[k])
    /\ \/ last.net.kind = "exc"
       \/ /\ last.net.kind = "resp"
          /\ \/ last.net.status < 200
             \/ last.net.status > 299
             \/ last.net.body = "not-json"

\* the transport answered the latest invocation 2xx with a JSON body
AnsweredJSON ==
    /\ last.posts # <<>>
    /\ last.net.kind = "resp"
    /\ last.net.status >= 200
    /\ last.net.status <= 299
    /\ last.net.body # "not-json"

\* a non-empty string
NonEmptyString(x) == x.t = "str" /\ x.v # <<>>

----------------------------------------------------------------------------
(* C1 *)

\* C1: whatever the remote call does, the pair (data, error) a client method
\* returns has exactly one component populated: data is not None and error is
\* None, or data is None and error is a string.
C1_ExactlyOnePopulated ==
    Returned =>
        \/ last.ret.data # None /\ last.ret.error = None
        \/ last.ret.data = None /\ last.ret.error.t = "str"

----------------------------------------------------------------------------
(* C2 *)

\* C2: no invocation of a public client method lets an exception escape to
\* its caller; every failure comes back through the error component.
C2_NoExceptionEscapes == last.ret.kind # "raise"

----------------------------------------------------------------------------
(* C3 *)

\* C3: create_enbox with create_via="direct" and a password that is None or
\* empty returns (None, <non-empty error string>) and calls requests.post
\* zero times: the request count is the same after the call as before it.
C3_DirectWithoutPasswordFailsLocally ==
    [][(/\ InvocationStep
        /\ last'.method = "create_enbox"
        /\ last'.args.create_via = Str("direct")
        /\ last'.args.password \in {None, EmptyStr})
       => /\ last'.ret.kind = "return"
          /\ last'.ret.data = None
          /\ NonEmptyString(last'.ret.error)
          /\ last'.posts = <<>>
          /\ request_count' = request_count]_vars

\* a direct creation with an empty password has just failed locally, after an
\* earlier invocation that did send a request
C3_Witness ==
    /\ Called("create_enbox")
    /\ last.args.create_via = Str("direct")
    /\ last.args.password = EmptyStr
    /\ last.ret = Return(None, Str("Password is required for direct creation"))
    /\ invocations = 2
    /\ request_count = 1

----------------------------------------------------------------------------
(* C4 *)

\* C4: when the remote call fails (transport failure, non-2xx status, or a
\* body that is not JSON) the method returns (None, error) with error a
\* non-empty string.
C4_FailureGivesNonEmptyError ==
    (Returned /\ RemoteCallFailed) =>
        /\ last.ret.data = None
        /\ NonEmptyString(last.ret.error)

----------------------------------------------------------------------------
(* C5 *)

\* C5: create_enbox with create_via other than "direct" needs no password:
\* whatever the password argument is, it calls requests.post once, with action
\* create-enbox-invite and a body that has no password field, and when the
\* answer is 2xx with a JSON body it returns (the decoded body, None).
C5_InviteNeedsNoPassword ==
    (Called("create_enbox") /\ last.args.create_via # Str("direct")) =>
        /\ Len(last.posts) = 1
        /\ last.posts[1].json["action"] = Str("create-enbox-invite")
        /\ "password" \notin DOMAIN last.posts[1].json
        /\ AnsweredJSON => last.ret = Return(Decode(last.net.body), None)

\* an invite creation with password None was answered 200 with a JSON object
\* and returned it
C5_Witness ==
    /\ Called("create_enbox")
    /\ last.args.create_via = Str("invite")
    /\ last.args.password = None
    /\ last.net = Response(200, "object")
    /\ Len(last.posts) = 1
    /\ last.ret.data = Dict(<<"enboxes">>)
    /\ last.ret.error = None

----------------------------------------------------------------------------
(* C6 *)

\* C6: the body send_email transmits has action send-email; its cc and bcc
\* are lists, never null: the empty list when the caller passed None, the
\* caller's list otherwise; its `to` is the caller's list unchanged.
C6_CcBccAreLists ==
    Called("send_email") =>
        /\ Len(last.posts) = 1
        /\ LET body == last.posts[1].json
               args == last.args
           IN  /\ body["action"] = Str("send-email")
               /\ body["cc"].t = "list"
               /\ body["bcc"].t = "list"
               /\ body["cc"] = (IF args.cc = None THEN List(<<>>) ELSE args.cc)
               /\ body["bcc"] = (IF args.bcc = None THEN List(<<>>) ELSE args.bcc)
               /\ body["to"] = args.to

\* send_email was called with cc omitted and a bcc list, and sent [] and that list
C6_Witness ==
    /\ Called("send_email")
    /\ last.args.cc = None
    /\ last.args.bcc = List(<<"c">>)
    /\ Len(last.posts) = 1
    /\ last.posts[1].json["cc"] = List(<<>>)
    /\ last.posts[1].json["bcc"] = List(<<"c">>)

----------------------------------------------------------------------------
(* C7 *)

\* the header that carries the credential of a client class
CredentialHeader(cls) ==
    IF cls = "MSPAPIClient" THEN "X-MSP-API-Key" ELSE "X-Enbox-API-Key"

\* C7: when two consecutive invocations are of the same method with the same
\* arguments on objects of the same class, the two requests have the same
\* URL, the same body and the same Content-Type, carry no header but
\* Content-Type and the class's credential header, and each carries the
\* api_key of the object that sent it: the requests differ exactly when the
\* two credentials differ, and only in that header.
C7_HeaderIsolation ==
    [][(/\ InvocationStep
        /\ last.posts # <<>>
        /\ last'.posts # <<>>
        /\ clients[last.inst].cls = clients'[last'.inst].cls
        /\ last'.method = last.method
        /\ last'.args = last.args)
       => LET a == last.posts[1]
              b == last'.posts[1]
              h == CredentialHeader(clients[last.inst].cls)
              ka == clients[last.inst].api_key
              kb == clients'[last'.inst].api_key
          IN  /\ a.url = b.url
              /\ a.json = b.json
              /\ DOMAIN a.headers = {"Content-Type", h}
              /\ DOMAIN b.headers = {"Content-Type", h}
              /\ a.headers["Content-Type"] = b.headers["Content-Type"]
              /\ a.headers[h] = ka
              /\ b.headers[h] = kb
              /\ (ka # kb) => (a.headers[h] # b.headers[h])]_vars

\* two MSP clients hold different credentials, both invocations so far sent a
\* request, and the latest, by c2, carried c2's credential and not c1's
C7_Witness ==
    /\ clients["c1"].cls = "MSPAPIClient"
    /\ clients["c2"].cls = "MSPAPIClient"
    /\ clients["c1"].api_key # clients["c2"].api_key
    /\ invocations = 2
    /\ request_count = 2
    /\ last.inst = "c2"
    /\ last.posts[1].headers["X-MSP-API-Key"] = clients["c2"].api_key
    /\ last.posts[1].headers["X-MSP-API-Key"] # clients["c1"].api_key

----------------------------------------------------------------------------
(* C8 *)

\* the invocation fails a local precondition: direct creation without password
LocalPreconditionFails(call) ==
    /\ call.method = "create_enbox"
    /\ call.args.create_via = Str("direct")
    /\ ~Truthy(call.args.password)

\* C8: an invocation of a public client method calls requests.post exactly
\* once, and not at all when a local precondition fails; it never calls it
\* again after a failure, so the requests sent never outnumber the invocations.
C8_OneAttemptPerInvocation ==
    [][InvocationStep
       => /\ request_count' - request_count = Len(last'.posts)
          /\ Len(last'.posts) = (IF LocalPreconditionFails(last') THEN 0 ELSE 1)
          /\ request_count' <= invocations']_vars

\* two invocations, two requests, and the latest one failed remotely
C8_Witness ==
    /\ invocations = 2
    /\ request_count = 2
    /\ RemoteCallFailed
    /\ last.net.kind = "exc"
    /\ Len(last.posts) = 1

----------------------------------------------------------------------------
(* C9 *)

\* the action names of the wire protocol
Vocabulary ==
    {"list-enboxes", "create-enbox", "create-enbox-invite", "get-enbox",
     "activate-enbox", "deactivate-enbox", "get-stats", "get-usage",
     "get-profile", "list-emails", "get-email", "send-email", "mark-read",
     "mark-unread", "star", "unstar", "archive", "trash", "restore",
     "delete-draft", "list-labels", "resolve-enbox"}

\* the action name that belongs to an invocation
ExpectedAction(call) ==
    CASE call.method = "get_enboxes" -> "list-enboxes"
      [] call.method = "create_enbox" ->
            IF call.args.create_via = Str("direct")
            THEN "create-enbox" ELSE "create-enbox-invite"
      [] call.method = "get_enbox" -> "get-enbox"
      [] call.method = "activate_enbox" -> "activate-enbox"
      [] call.method = "deactivate_enbox" -> "deactivate-enbox"
      [] call.method = "get_stats" -> "get-stats"
      [] call.method = "get_usage" -> "get-usage"
      [] call.method = "get_profile" -> "get-profile"
      [] call.method = "list_emails" -> "list-emails"
      [] call.method = "get_email" -> "get-email"
      [] call.method = "send_email" -> "send-email"
      [] call.method = "mark_read" -> "mark-read"
      [] call.method = "mark_unread" -> "mark-unread"
      [] call.method = "star" -> "star"
      [] call.method = "unstar" -> "unstar"
      [] call.method = "archive" -> "archive"
      [] call.method = "trash" -> "trash"
      [] call.method = "restore" -> "restore"
      [] call.method = "delete_draft" -> "delete-draft"
      [] call.method = "list_labels" -> "list-labels"
      [] call.method = "resolve_enbox" -> "resolve-enbox"
      [] OTHER -> ""

\* C9: every body a public client method transmits has an action field, and
\* it is the non-empty action name of that method, from the vocabulary,
\* whatever the arguments of the call are.
C9_ActionAlwaysPresent ==
    \A n \in 1..Len(last.posts) :
        LET body == last.posts[n].json
        IN  /\ "action" \in DOMAIN body
            /\ NonEmptyString(body["action"])
            /\ body["action"] = Str(ExpectedAction(last))
            /\ ExpectedAction(last) \in Vocabulary

\* resolve_enbox was called with an argument that is not even JSON, and the
\* body it handed to requests.post has action resolve-enbox
C9_Witness ==
    /\ Called("resolve_enbox")
    /\ last.args.enbox_id = Obj
    /\ Len(last.posts) = 1
    /\ last.posts[1].json["action"] = Str("resolve-enbox")
    /\ last.posts[1].json["enboxId"] = Obj

----------------------------------------------------------------------------
(* C10 *)

\* C10: no invocation of a public client method, failed or not, changes a
\* client object or the session state: every object stays what its
\* constructor made of its api_key.
C10_ClientImmutable ==
    [][InvocationStep
       => /\ clients' = clients
          /\ session_state' = session_state
          /\ \A i \in InstIds :
                clients'[i] \in {NoClient, MSPAPIClient(clients'[i].api_key),
                                 UserAPIClient(clients'[i].api_key)}]_vars

\* after two invocations, the latest one failed, the object that made it is
\* still as constructed
C10_Witness ==
    /\ invocations = 2
    /\ last.inst = "c1"
    /\ clients["c1"] = UserAPIClient("k2")
    /\ Returned
    /\ last.ret.error # None

----------------------------------------------------------------------------
(* Vocabulary of the claims about the application *)

\* the remote call behind a call of the application failed: the transport
\* raised, or answered outside 2xx, or with a body that is not JSON
CallFailed(call) ==
    /\ call.posts # <<>>
    /\ \/ call.net.kind = "exc"
       \/ /\ call.net.kind = "resp"
          /\ \/ call.net.status < 200
             \/ call.net.status > 299
             \/ call.net.body = "not-json"

\* the call was made, and returned with no error after a 2xx JSON answer
CallSucceeded(call) ==
    /\ call.posts # <<>>
    /\ ~CallFailed(call)
    /\ call.ret.kind = "return"
    /\ call.ret.error = None

\* the elements of a sequence
Range(seq) == {seq[i] : i \in DOMAIN seq}

MSPRenderers == {"display_enboxes_list", "create_enbox_form", "display_msp_statistics"}

UserRenderers ==
    {"display_inbox", "send_email_form", "user_profile_page", "resolve_enbox_tool",
     "display_labels"}

\* the step is main's authentication of MSP, or a click on Disconnect MSP
MSPRoleStep ==
    \/ pc = "auth_msp"
    \/ pc = "sidebar" /\ session_state.msp_authenticated /\ run.event = "disconnect_msp"

\* the step is main's authentication of User, or a click on Disconnect User
UserRoleStep ==
    \/ pc = "auth_user"
    \/ /\ pc = "sidebar"
       /\ ~(session_state.msp_authenticated /\ run.event = "disconnect_msp")
       /\ session_state.user_authenticated
       /\ run.event = "disconnect_user"

----------------------------------------------------------------------------
(* C11 *)

\* C11: the two roles are independent in the session: a step that
\* authenticates MSP, fails to, or disconnects it leaves user_authenticated
\* and user_api_key as they were, and a step that does so for User leaves
\* msp_authenticated and msp_api_key as they were.
C11_RolesIndependent ==
    [][/\ MSPRoleStep
          => /\ session_state'.user_authenticated = session_state.user_authenticated
             /\ session_state'.user_api_key = session_state.user_api_key
       /\ UserRoleStep
          => /\ session_state'.msp_authenticated = session_state.msp_authenticated
             /\ session_state'.msp_api_key = session_state.msp_api_key]_vars

\* MSP was disconnected while User was connected, and in the run that
\* followed its probe connected it again: both roles are connected, User
\* first, with the keys of the configuration
C11_Witness ==
    /\ pc = "auth_user"
    /\ run.trigger = "disconnect_msp"
    /\ run.call.method = "get_enboxes"
    /\ session_state.msp_authenticated
    /\ session_state.msp_api_key = Str("k1")
    /\ session_state.user_authenticated
    /\ session_state.user_api_key = Str("k2")

----------------------------------------------------------------------------
(* C12 *)

\* C12: a role's flag becomes True only in a step where its key is
\* configured and the probe with that key (get_enboxes for MSP, get_profile
\* for User) succeeded; and a probe whose remote call failed, whatever the
\* error text, leaves the role not authenticated and its key not stored.
C12_AuthenticatedOnlyAfterSuccessfulProbe ==
    [][/\ (~session_state.msp_authenticated /\ session_state'.msp_authenticated)
          => /\ Truthy(secrets.msp_api_key)
             /\ run'.call.method = "get_enboxes"
             /\ CallSucceeded(run'.call)
       /\ (~session_state.user_authenticated /\ session_state'.user_authenticated)
          => /\ Truthy(secrets.user_api_key)
             /\ run'.call.method = "get_profile"
             /\ CallSucceeded(run'.call)
       /\ (pc = "auth_msp" /\ CallFailed(run'.call))
          => /\ ~session_state'.msp_authenticated
             /\ session_state'.msp_api_key = None
       /\ (pc = "auth_user" /\ CallFailed(run'.call))
          => /\ ~session_state'.user_authenticated
             /\ session_state'.user_api_key = None]_vars

----------------------------------------------------------------------------
(* C13 *)

\* C13: in every reachable state an authenticated role has a stored key; the
\* renderer of the run was called with a client of its role, built from the
\* stored key, and that role is authenticated; the pages offered and the page
\* chosen belong to authenticated roles; with no role authenticated no page
\* is routed or rendered.
C13_RendererGetsClientOfRole ==
    /\ session_state.msp_authenticated => session_state.msp_api_key # None
    /\ session_state.user_authenticated => session_state.user_api_key # None
    /\ run.renderer \in MSPRenderers
          => /\ session_state.msp_authenticated
             /\ run.client # NoClient
             /\ run.client.api_key # ""
             /\ run.client = MSPAPIClient(KeyOf(session_state.msp_api_key))
    /\ run.renderer \in UserRenderers
          => /\ session_state.user_authenticated
             /\ run.client # NoClient
             /\ run.client.api_key # ""
             /\ run.client = UserAPIClient(KeyOf(session_state.user_api_key))
    /\ (Range(run.pages) \cup {run.page}) \cap Range(MSPPages) # {}
          => session_state.msp_authenticated
    /\ (Range(run.pages) \cup {run.page}) \cap Range(UserPages) # {}
          => session_state.user_authenticated
    /\ (~session_state.msp_authenticated /\ ~session_state.user_authenticated)
          => /\ pc # "route"
             /\ run.page = "none"
             /\ run.renderer = "none"

\* the dashboard was rendered with the MSP client of key k1 while User is
\* not authenticated, and only the MSP pages were offered
C13_Witness ==
    /\ run.renderer = "display_enboxes_list"
    /\ run.client = MSPAPIClient("k1")
    /\ run.pages = MSPPages
    /\ ~session_state.user_authenticated

----------------------------------------------------------------------------
(* C14 *)

\* C14: in the run that follows a click on Disconnect for a role, where the
\* user has done nothing since, the role stays disconnected: its flag stays
\* False, its key None, no probe is sent with its credential and none of its
\* pages is offered.
C14_StaysDisconnected ==
    [][/\ (pc = "auth_msp" /\ run.trigger = "disconnect_msp")
          => /\ ~session_state'.msp_authenticated
             /\ session_state'.msp_api_key = None
             /\ run'.call = NoCall
       /\ (pc = "auth_user" /\ run.trigger = "disconnect_user")
          => /\ ~session_state'.user_authenticated
             /\ session_state'.user_api_key = None
             /\ run'.call = NoCall
       /\ (pc = "sidebar" /\ run.trigger = "disconnect_msp")
          => Range(run'.pages) \cap Range(MSPPages) = {}
       /\ (pc = "sidebar" /\ run.trigger = "disconnect_user")
          => Range(run'.pages) \cap Range(UserPages) = {}]_vars

----------------------------------------------------------------------------
(* C15 *)

\* C15: enboxes_data gets a value only from a get_enboxes call of the
\* dashboard that returned with no error, made when the cache was None (at
\* first or after Refresh); a create_enbox submission that succeeded resets
\* it to None, and one whose remote call failed leaves it as it was.
C15_CacheOfEnboxes ==
    [][/\ (session_state'.enboxes_data # session_state.enboxes_data
           /\ session_state'.enboxes_data # None)
          => /\ pc = "route"
             /\ run'.renderer = "display_enboxes_list"
             /\ run'.call.method = "get_enboxes"
             /\ CallSucceeded(run'.call)
             /\ session_state'.enboxes_data = run'.call.ret.data
       /\ (pc = "route" /\ run'.renderer = "display_enboxes_list"
           /\ run'.call.method = "get_enboxes")
          => \/ session_state.enboxes_data = None
             \/ session_state'.enboxes_data \in {None, run'.call.ret.data}
       /\ (pc = "route" /\ run'.renderer = "create_enbox_form"
           /\ CallSucceeded(run'.call))
          => session_state'.enboxes_data = None
       /\ (pc = "route" /\ run'.renderer = "create_enbox_form"
           /\ CallFailed(run'.call))
          => session_state'.enboxes_data = session_state.enboxes_data]_vars

====
